---- MODULE Spec2Model ----
(***************************************************************************)
(* Model of src/node.rs: the borrowed Node view over a tree-sitter tree,   *)
(* its iterators (NodeWalker, ancestors, next_all), the traversal entry    *)
(* points find / find_all and the edit-producing replace.                  *)
(***************************************************************************)
EXTENDS Integers, Sequences, FiniteSets, TLC

\* Largest number of nodes of a generated tree.
MaxNodes == 3
\* Largest number of bytes of a source handed to text() in SpecText.
MaxSrcLen == 3

VARIABLES
    tree,    \* the Root: the parsed tree and the source text it spans
    last,    \* the last call made on a Node or on an iterator, and what it returned
    iter     \* the iterator the last call returned or advanced (NoIter when the
             \* last call was not on an iterator): its kind, the node it was made
             \* from, its fields (st), the items it has yielded so far and whether
             \* it has returned None

vars == <<tree, last, iter>>

------------------------------------------------------------------------------
(* Trees.  Nodes are 1..t.n numbered in pre-order, t.par[i] is the parent  *)
(* of i (0 for the root, node 1), so the children of a node are the nodes  *)
(* naming it as parent, in increasing order.                               *)

RECURSIVE OnPath(_, _, _)
\* a is j or an ancestor of j
OnPath(par, j, a) ==
    IF j = 0 THEN FALSE
    ELSE IF j = a THEN TRUE
    ELSE OnPath(par, par[j], a)

\* The parent maps of the pre-order numbered trees of n nodes.
ParentMaps(n) ==
    { p \in [1..n -> 0..(n - 1)] :
        /\ p[1] = 0
        /\ \A i \in 2..n : p[i] >= 1 /\ p[i] < i /\ OnPath(p, i - 1, p[i]) }

HasKids(n, par, i) == \E j \in 1..n : par[j] = i

LeafSet(n, par) == { i \in 1..n : ~HasKids(n, par, i) }

\* number of leaves before leaf i in source order
LeafRank(n, par, i) == Cardinality({ j \in LeafSet(n, par) : j < i })

SetMin(S) == CHOOSE x \in S : \A y \in S : x <= y
SetMax(S) == CHOOSE x \in S : \A y \in S : x >= y

LeavesUnder(n, par, i) == { j \in LeafSet(n, par) : OnPath(par, j, i) }

\* A generated tree: every leaf is a one-byte identifier token ("a" or "b"),
\* tokens are separated by one blank, an inner node has kind "S" or "E" and
\* spans from its first to its last token.
MkTree(n, par, lab) ==
    [ n      |-> n,
      par    |-> par,
      kind   |-> [ i \in 1..n |->
                     IF HasKids(n, par, i)
                     THEN (IF lab[i] = 1 THEN "S" ELSE "E")
                     ELSE "id" ],
      start  |-> [ i \in 1..n |->
                     2 * LeafRank(n, par, SetMin(LeavesUnder(n, par, i))) ],
      end    |-> [ i \in 1..n |->
                     2 * LeafRank(n, par, SetMax(LeavesUnder(n, par, i))) + 1 ],
      source |-> [ k \in 1..(2 * Cardinality(LeafSet(n, par)) - 1) |->
                     IF k % 2 = 0 THEN " "
                     ELSE LET lf == CHOOSE j \in LeafSet(n, par) :
                                        LeafRank(n, par, j) = (k - 1) \div 2
                          IN  IF lab[lf] = 1 THEN "a" ELSE "b" ] ]

GeneratedTrees ==
    UNION { { MkTree(n, p, l) : p \in ParentMaps(n), l \in [1..n -> {1, 2}] }
            : n \in 1..MaxNodes }

\* The tree of the tests: "let a = 123"
LetTree ==
    [ n      |-> 7,
      par    |-> <<0, 1, 2, 2, 4, 4, 4>>,
      kind   |-> <<"program", "lexical_declaration", "let", "variable_declarator",
                   "identifier", "=", "number">>,
      start  |-> <<0, 0, 0, 4, 4, 6, 8>>,
      end    |-> <<11, 11, 3, 11, 5, 7, 11>>,
      source |-> <<"l", "e", "t", " ", "a", " ", "=", " ", "1", "2", "3">> ]

\* "let a = a"
LetSameTree ==
    [ n      |-> 7,
      par    |-> <<0, 1, 2, 2, 4, 4, 4>>,
      kind   |-> <<"program", "lexical_declaration", "let", "variable_declarator",
                   "identifier", "=", "identifier">>,
      start  |-> <<0, 0, 0, 4, 4, 6, 8>>,
      end    |-> <<9, 9, 3, 9, 5, 7, 9>>,
      source |-> <<"l", "e", "t", " ", "a", " ", "=", " ", "a">> ]

Roots == GeneratedTrees \cup {LetTree, LetSameTree}

Nodes(t) == 1..t.n

------------------------------------------------------------------------------
(* tree_sitter::Node accessors used by node.rs                             *)

child_count(t, i) == Cardinality({ j \in Nodes(t) : t.par[j] = i })

\* Option<Node>: 0 is None
ts_parent(t, i) == t.par[i]

next_sibling(t, i) ==
    LET S == { j \in Nodes(t) : j > i /\ t.par[j] = t.par[i] /\ t.par[i] # 0 }
    IN  IF S = {} THEN 0 ELSE SetMin(S)

prev_sibling(t, i) ==
    LET S == { j \in Nodes(t) : j < i /\ t.par[j] = t.par[i] /\ t.par[i] # 0 }
    IN  IF S = {} THEN 0 ELSE SetMax(S)

start_byte(t, i) == t.start[i]
end_byte(t, i) == t.end[i]

(* tree_sitter::TreeCursor: walk() makes the node the root of the cursor,  *)
(* and the cursor never leaves the subtree of that root.                   *)
walk(i) == [root |-> i, cur |-> i]

cursor_node(c) == c.cur

\* <<moved, cursor>>
goto_first_child(t, c) ==
    LET S == { j \in Nodes(t) : t.par[j] = c.cur }
    IN  IF S = {} THEN <<FALSE, c>>
        ELSE <<TRUE, [c EXCEPT !.cur = SetMin(S)]>>

goto_next_sibling(t, c) ==
    IF c.cur = c.root THEN <<FALSE, c>>
    ELSE LET s == next_sibling(t, c.cur)
         IN  IF s = 0 THEN <<FALSE, c>>
             ELSE <<TRUE, [c EXCEPT !.cur = s]>>

------------------------------------------------------------------------------
(* Node: internal API                                                      *)


\* is_leaf with the comparison off by one
is_leaf_le_one(t, i) == child_count(t, i) <= 1

is_leaf(t, i) == child_count(t, i) = 0

kind(t, i) == t.kind[i]

\* source bytes: "C3" leads a two-byte character, "A9" continues one, every
\* other byte is a one-byte character
IsLead(b) == b = "C3"
IsCont(b) == b = "A9"

RECURSIVE Utf8Valid(_)
Utf8Valid(bytes) ==
    IF bytes = <<>> THEN TRUE
    ELSE IF IsCont(Head(bytes)) THEN FALSE
    ELSE IF IsLead(Head(bytes))
         THEN /\ Len(bytes) >= 2
              /\ IsCont(bytes[2])
              /\ Utf8Valid(SubSeq(bytes, 3, Len(bytes)))
    ELSE Utf8Valid(Tail(bytes))

\* tree_sitter::Node::utf8_text: Result<&str, Utf8Error>
utf8_text(t, i) ==
    LET bytes == SubSeq(t.source, start_byte(t, i) + 1, end_byte(t, i))
    IN  IF Utf8Valid(bytes) THEN [ok |-> TRUE, val |-> bytes]
        ELSE [ok |-> FALSE, val |-> <<>>]

\* text(): the slice, or a panic with "invalid source text encoding"
text(t, i) ==
    LET r == utf8_text(t, i)
    IN  IF r.ok THEN [status |-> "returned", val |-> r.val]
        ELSE [status |-> "panicked", val |-> <<>>]

\* children(): a NodeWalker on the first child
children(t, i) ==
    [ cursor |-> goto_first_child(t, walk(i))[2],
      count  |-> child_count(t, i) ]


\* NodeWalker::next without the goto_next_sibling of line 29
NodeWalker_next_stuck(t, w) ==
    IF w.count = 0 THEN <<0, w>>
    ELSE <<cursor_node(w.cursor), [cursor |-> w.cursor, count |-> w.count - 1]>>

\* NodeWalker::next: <<item (0 is None), walker after the call>>
NodeWalker_next(t, w) ==
    IF w.count = 0 THEN <<0, w>>
    ELSE <<cursor_node(w.cursor),
           [ cursor |-> goto_next_sibling(t, w.cursor)[2],
             count  |-> w.count - 1 ]>>

\* ExactSizeIterator::len
NodeWalker_len(w) == w.count

------------------------------------------------------------------------------
(* Node: tree traversal API                                                *)


\* parent() going up two levels where it can
parent_skips_one(t, i) ==
    IF ts_parent(t, i) = 0 THEN 0
    ELSE IF ts_parent(t, ts_parent(t, i)) = 0 THEN ts_parent(t, i)
    ELSE ts_parent(t, ts_parent(t, i))

parent(t, i) == ts_parent(t, i)


\* ancestors() starting at the node itself
ancestors_from_self(t, i) == [parent |-> i]

\* ancestors(): the closure's captured variable
ancestors(t, i) == [parent |-> ts_parent(t, i)]

ancestors_next(t, a) ==
    IF a.parent = 0 THEN <<0, a>>
    ELSE <<a.parent, [parent |-> ts_parent(t, a.parent)]>>

next(t, i) == next_sibling(t, i)

prev(t, i) == prev_sibling(t, i)

\* next_all(): the closure's captured cursor
next_all(t, i) == [cursor |-> walk(i)]

next_all_next(t, a) ==
    LET g == goto_next_sibling(t, a.cursor)
    IN  IF g[1] THEN <<cursor_node(g[2]), [cursor |-> g[2]]>>
        ELSE <<0, [cursor |-> g[2]]>>

------------------------------------------------------------------------------
(* Pattern, the matcher and the Replacer (crate::Pattern, crate::rule,     *)
(* crate::replacer): the collaborators find, find_all and replace call.    *)

RECURSIVE SeqOfSet(_)
\* the elements of a set of numbers in increasing order
SeqOfSet(S) ==
    IF S = {} THEN <<>>
    ELSE <<SetMin(S)>> \o SeqOfSet(S \ {SetMin(S)})

\* the children of node i of a tree or of a pattern, left to right
KidsSeq(t, i) == SeqOfSet({ j \in 1..t.n : t.par[j] = i })

MetaNames == {"X", "Y"}

PatternStrings ==
    {"$X", "a", "S($X $X)", "E($X b)", "let $X = $Y", "let $X = $X"}

LetPattern(second) ==
    [ n    |-> 6,
      par  |-> <<0, 1, 1, 3, 3, 3>>,
      kind |-> <<"lexical_declaration", "let", "variable_declarator", "", "=", "">>,
      text |-> <<<<>>, <<"l", "e", "t">>, <<>>, <<>>, <<"=">>, <<>> >>,
      meta |-> <<"", "", "", "X", "", second>> ]

\* Pattern::new: the compiled pattern of a query string; node 1 is its root,
\* meta[i] names the metavariable node i stands for ("" for a literal node)
PatternNew(ps) ==
    CASE ps = "$X" ->
           [ n |-> 1, par |-> <<0>>, kind |-> <<"">>, text |-> << <<>> >>,
             meta |-> <<"X">> ]
      [] ps = "a" ->
           [ n |-> 1, par |-> <<0>>, kind |-> <<"id">>, text |-> << <<"a">> >>,
             meta |-> <<"">> ]
      [] ps = "S($X $X)" ->
           [ n |-> 3, par |-> <<0, 1, 1>>, kind |-> <<"S", "", "">>,
             text |-> << <<>>, <<>>, <<>> >>, meta |-> <<"", "X", "X">> ]
      [] ps = "E($X b)" ->
           [ n |-> 3, par |-> <<0, 1, 1>>, kind |-> <<"E", "", "id">>,
             text |-> << <<>>, <<>>, <<"b">> >>, meta |-> <<"", "X", "">> ]
      [] ps = "let $X = $Y" -> LetPattern("Y")
      [] ps = "let $X = $X" -> LetPattern("X")

PatternVars(ps) ==
    LET p == PatternNew(ps)
    IN  { p.meta[i] : i \in 1..p.n } \ {""}

EmptyEnv == [m \in MetaNames |-> 0]

NoMatch == [ok |-> FALSE, env |-> EmptyEnv]

RECURSIVE match_one(_, _, _, _, _)
RECURSIVE match_children(_, _, _, _, _)

\* match pattern node pi against candidate c under the bindings made so far
match_one(p, pi, t, c, env) ==
    IF p.meta[pi] # ""
    THEN LET bound == env[p.meta[pi]]
         IN  IF bound = 0
             THEN [ok |-> TRUE, env |-> [env EXCEPT ![p.meta[pi]] = c]]
             ELSE IF kind(t, bound) = kind(t, c) /\ text(t, bound) = text(t, c)
                  THEN [ok |-> TRUE, env |-> env]
                  ELSE NoMatch
    ELSE IF p.kind[pi] # kind(t, c) THEN NoMatch
    ELSE IF KidsSeq(p, pi) = <<>>
         THEN IF text(t, c).val = p.text[pi]
              THEN [ok |-> TRUE, env |-> env]
              ELSE NoMatch
    ELSE match_children(p, KidsSeq(p, pi), t, KidsSeq(t, c), env)

match_children(p, pks, t, cks, env) ==
    IF Len(pks) # Len(cks) THEN NoMatch
    ELSE IF pks = <<>> THEN [ok |-> TRUE, env |-> env]
    ELSE LET r == match_one(p, Head(pks), t, Head(cks), env)
         IN  IF r.ok THEN match_children(p, Tail(pks), t, Tail(cks), r.env)
             ELSE NoMatch

NotFound == [found |-> FALSE, node |-> 0, env |-> EmptyEnv]

RECURSIVE find_node_easy(_, _, _)
RECURSIVE find_first_in(_, _, _)

\* Pattern::find_node_easy: the first match in pre-order from i, with its
\* environment
find_node_easy(p, t, i) ==
    LET m == match_one(p, 1, t, i, EmptyEnv)
    IN  IF m.ok THEN [found |-> TRUE, node |-> i, env |-> m.env]
        ELSE find_first_in(p, t, KidsSeq(t, i))

find_first_in(p, t, ks) ==
    IF ks = <<>> THEN NotFound
    ELSE LET r == find_node_easy(p, t, Head(ks))
         IN  IF r.found THEN r ELSE find_first_in(p, t, Tail(ks))

RECURSIVE find_node_vec(_, _, _)
RECURSIVE find_vec_in(_, _, _)

\* Pattern::find_node_vec: every match in pre-order from i
find_node_vec(p, t, i) ==
    (IF match_one(p, 1, t, i, EmptyEnv).ok THEN <<i>> ELSE <<>>)
        \o find_vec_in(p, t, KidsSeq(t, i))

find_vec_in(p, t, ks) ==
    IF ks = <<>> THEN <<>>
    ELSE find_node_vec(p, t, Head(ks)) \o find_vec_in(p, t, Tail(ks))

Replacers == {"$X", "let $Y = $X", "c"}

\* the template of a replacer: literal text and metavariable references
Template(r) ==
    CASE r = "$X" -> << [var |-> "X", lit |-> <<>>] >>
      [] r = "c"  -> << [var |-> "", lit |-> <<"c">>] >>
      [] r = "let $Y = $X" ->
           << [var |-> "", lit |-> <<"l", "e", "t", " ">>],
              [var |-> "Y", lit |-> <<>>],
              [var |-> "", lit |-> <<" ", "=", " ">>],
              [var |-> "X", lit |-> <<>>] >>

TemplateVars(r) == { Template(r)[k].var : k \in 1..Len(Template(r)) } \ {""}

RECURSIVE Instantiate(_, _, _)
Instantiate(items, t, env) ==
    IF items = <<>> THEN <<>>
    ELSE (IF Head(items).var = "" THEN Head(items).lit
          ELSE text(t, env[Head(items).var]).val)
         \o Instantiate(Tail(items), t, env)

\* Replacer::generate_replacement
generate_replacement(r, t, env) == Instantiate(Template(r), t, env)

------------------------------------------------------------------------------
(* Node: find, find_all and replace                                        *)


\* find searching below the node only
find_below(t, i, pat) ==
    LET goal == PatternNew(pat)
        f    == find_first_in(goal, t, KidsSeq(t, i))
    IN  IF f.found THEN f.node ELSE 0

\* find: Option<Node>, 0 is None
find(t, i, pat) ==
    LET goal == PatternNew(pat)
        f    == find_node_easy(goal, t, i)
    IN  IF f.found THEN f.node ELSE 0

find_all(t, i, pat) ==
    LET goal == PatternNew(pat)
    IN  find_node_vec(goal, t, i)


\* the subtraction with its operands exchanged
usize_sub_swapped(a, b) == IF b >= a THEN b - a ELSE 0 - 1

\* usize subtraction: a negative result stands for the underflow
usize_sub(a, b) == IF a >= b THEN a - b ELSE 0 - 1

NoEdit ==
    [some |-> FALSE, position |-> 0, deleted_length |-> 0, inserted_text |-> <<>>]


\* replace taking the span of the node it was called on
replace_span_of_self(t, i, pattern_str, replacer) ==
    LET to_match == PatternNew(pattern_str)
        f        == find_node_easy(to_match, t, i)
    IN  IF ~f.found THEN NoEdit
        ELSE [ some           |-> TRUE,
               position       |-> start_byte(t, i),
               deleted_length |-> usize_sub(end_byte(t, i), start_byte(t, i)),
               inserted_text  |-> generate_replacement(replacer, t, f.env) ]

\* replace: Option<Edit>
replace(t, i, pattern_str, replacer) ==
    LET to_match == PatternNew(pattern_str)
        f        == find_node_easy(to_match, t, i)
    IN  IF ~f.found THEN NoEdit
        ELSE LET inner          == f.node
                 position       == start_byte(t, inner)
                 deleted_length == usize_sub(end_byte(t, inner), position)
                 inserted_text  == generate_replacement(replacer, t, f.env)
             IN  [ some           |-> TRUE,
                   position       |-> position,
                   deleted_length |-> deleted_length,
                   inserted_text  |-> inserted_text ]

------------------------------------------------------------------------------
(* The calls a holder of the Root can make                                 *)

NoIter == [kind |-> "none", owner |-> 0, st |-> <<>>, yielded |-> <<>>, done |-> FALSE]

Call(op, n, p, r, out) ==
    last' = [op |-> op, node |-> n, pat |-> p, rep |-> r, out |-> out]

\* a call that returns a plain value: the model follows the value returned
\* last, so an iterator returned earlier is no longer followed
Returns(op, n, p, r, out) ==
    /\ Call(op, n, p, r, out)
    /\ iter' = NoIter
    /\ UNCHANGED tree

Init ==
    /\ tree \in Roots
    /\ last = [op |-> "root", node |-> 1, pat |-> "", rep |-> "", out |-> 1]
    /\ iter = NoIter

IsLeafCall(n) ==
    Returns("is_leaf", n, "", "", is_leaf(tree, n))

TextCall(n) ==
    Returns("text", n, "", "", text(tree, n))

ChildrenCall(n) ==
    /\ Call("children", n, "", "", 0)
    /\ iter' = [ kind |-> "children", owner |-> n, st |-> children(tree, n),
                 yielded |-> <<>>, done |-> FALSE ]
    /\ UNCHANGED tree

\* one next() on an iterator: r is <<item, iterator fields after the call>>
Step(op, r) ==
    /\ Call(op, iter.owner, "", "", r[1])
    /\ iter' = [ iter EXCEPT !.st = r[2],
                             !.yielded = IF r[1] = 0 THEN @ ELSE Append(@, r[1]),
                             !.done = @ \/ r[1] = 0 ]
    /\ UNCHANGED tree

WalkerNext ==
    /\ iter.kind = "children"
    /\ Step("walker.next", NodeWalker_next(tree, iter.st))

WalkerLen ==
    /\ iter.kind = "children"
    /\ Call("walker.len", iter.owner, "", "", NodeWalker_len(iter.st))
    /\ UNCHANGED <<tree, iter>>

ParentCall(n) ==
    Returns("parent", n, "", "", parent(tree, n))

AncestorsCall(n) ==
    /\ Call("ancestors", n, "", "", 0)
    /\ iter' = [ kind |-> "ancestors", owner |-> n, st |-> ancestors(tree, n),
                 yielded |-> <<>>, done |-> FALSE ]
    /\ UNCHANGED tree

AncestorsNext ==
    /\ iter.kind = "ancestors"
    /\ Step("ancestors.next", ancestors_next(tree, iter.st))

NextCall(n) ==
    Returns("next", n, "", "", next(tree, n))

PrevCall(n) ==
    Returns("prev", n, "", "", prev(tree, n))

NextAllCall(n) ==
    /\ Call("next_all", n, "", "", 0)
    /\ iter' = [ kind |-> "next_all", owner |-> n, st |-> next_all(tree, n),
                 yielded |-> <<>>, done |-> FALSE ]
    /\ UNCHANGED tree

NextAllNext ==
    /\ iter.kind = "next_all"
    /\ Step("next_all.next", next_all_next(tree, iter.st))

FindCall(n, p) ==
    Returns("find", n, p, "", find(tree, n, p))

FindAllCall(n, p) ==
    Returns("find_all", n, p, "", find_all(tree, n, p))


\* replace applying its Edit to the source text
ReplaceCallApplies(n, p, r) ==
    /\ TemplateVars(r) \subseteq PatternVars(p)
    /\ Call("replace", n, p, r, replace(tree, n, p, r))
    /\ iter' = NoIter
    /\ LET e == replace(tree, n, p, r)
       IN  tree' = IF e.some
                   THEN [tree EXCEPT !.source =
                            SubSeq(@, 1, e.position) \o e.inserted_text
                            \o SubSeq(@, e.position + e.deleted_length + 1, Len(@))]
                   ELSE tree

\* the templates handed to replace refer to metavariables of the pattern
ReplaceCall(n, p, r) ==
    /\ TemplateVars(r) \subseteq PatternVars(p)
    /\ Returns("replace", n, p, r, replace(tree, n, p, r))

Next ==
    \/ \E n \in Nodes(tree) : IsLeafCall(n)
    \/ \E n \in Nodes(tree) : TextCall(n)
    \/ \E n \in Nodes(tree) : ChildrenCall(n)
    \/ WalkerNext
    \/ WalkerLen
    \/ \E n \in Nodes(tree) : ParentCall(n)
    \/ \E n \in Nodes(tree) : AncestorsCall(n)
    \/ AncestorsNext
    \/ \E n \in Nodes(tree) : NextCall(n)
    \/ \E n \in Nodes(tree) : PrevCall(n)
    \/ \E n \in Nodes(tree) : NextAllCall(n)
    \/ NextAllNext
    \/ \E n \in Nodes(tree), p \in PatternStrings : FindCall(n, p)
    \/ \E n \in Nodes(tree), p \in PatternStrings : FindAllCall(n, p)
    \/ \E n \in Nodes(tree), p \in PatternStrings, r \in Replacers : ReplaceCall(n, p, r)

Spec == Init /\ [][Next]_vars

------------------------------------------------------------------------------
(* text() on its own: a Node handle is a span and a source, and the call   *)
(* is made for every span of every valid source of at most MaxSrcLen bytes *)

Bytes == {"a", "b", "C3", "A9"}

Sources ==
    { s \in UNION { [1..k -> Bytes] : k \in 0..MaxSrcLen } : Utf8Valid(s) }

TextNode(src, s, e) ==
    [ n |-> 1, par |-> <<0>>, kind |-> <<"x">>, start |-> <<s>>, end |-> <<e>>,
      source |-> src ]

TextRoots ==
    UNION { UNION { { TextNode(src, s, e) : e \in s..Len(src) }
                    : s \in 0..Len(src) }
            : src \in Sources }

InitText ==
    /\ tree \in TextRoots
    /\ last = [op |-> "root", node |-> 1, pat |-> "", rep |-> "", out |-> 1]
    /\ iter = NoIter

NextText == \E n \in Nodes(tree) : TextCall(n)

SpecText == InitText /\ [][NextText]_vars

------------------------------------------------------------------------------
(* What the results are compared with                                      *)

\* the nodes of the subtree of i, i included
Subtree(t, i) == { j \in Nodes(t) : OnPath(t.par, j, i) }

\* the proper ancestors of i
AncestorSet(t, i) == { a \in Nodes(t) : a # i /\ OnPath(t.par, i, a) }

Range(q) == { q[k] : k \in 1..Len(q) }

RECURSIVE Collect(_, _)
\* the items a NodeWalker yields until it returns None
Collect(t, w) ==
    LET r == NodeWalker_next(t, w)
    IN  IF r[1] = 0 THEN <<>> ELSE <<r[1]>> \o Collect(t, r[2])

RECURSIVE NextChain(_, _)
\* the nodes reached by calling next() again and again from i
NextChain(t, i) ==
    IF next(t, i) = 0 THEN <<>>
    ELSE <<next(t, i)>> \o NextChain(t, next(t, i))

Matches(t, i, pat) ==
    { j \in Subtree(t, i) : match_one(PatternNew(pat), 1, t, j, EmptyEnv).ok }

------------------------------------------------------------------------------
(* The claims                                                              *)

C2_ChildrenInOrderWithExactLen ==
    iter.kind = "children" =>
        LET kids == KidsSeq(tree, iter.owner)
        IN  /\ Len(iter.yielded) <= Len(kids)
            /\ iter.yielded = SubSeq(kids, 1, Len(iter.yielded))
            /\ Len(kids) = child_count(tree, iter.owner)
            /\ NodeWalker_len(iter.st) = Len(kids) - Len(iter.yielded)
            /\ iter.done => iter.yielded = kids
            /\ last.op = "walker.next" => (last.out = 0 <=> iter.done)
            /\ last.op = "walker.len" => last.out = Len(kids) - Len(iter.yielded)

\* a walker over at least two children was run to its end
C2_Witness ==
    /\ iter.kind = "children"
    /\ iter.done
    /\ Len(iter.yielded) >= 2
    /\ last.op = "walker.next"

\* C3: next_all() yields all following siblings, the sequence repeated next()
\* gives, so it is non-empty whenever next() returns a node.
C3_NextAllIsRepeatedNext ==
    (iter.kind = "next_all" /\ iter.done) =>
        iter.yielded = NextChain(tree, iter.owner)

\* C4: a node with parent p is among the nodes p.children() yields and
\* parent() returns p; every node p.children() yields has parent p; parent()
\* returns nothing only for the root.
C4_ParentAndChildrenAgree ==
    /\ last.op = "parent" =>
          /\ last.out = 0 <=> last.node = 1
          /\ last.out # 0 =>
                last.node \in Range(Collect(tree, children(tree, last.out)))
    /\ iter.kind = "children" =>
          \A k \in 1..Len(iter.yielded) :
              parent(tree, iter.yielded[k]) = iter.owner

\* parent() returned a node that is not the root
C4_Witness ==
    /\ last.op = "parent"
    /\ last.out > 1

\* C5: find(p) returns nothing exactly when find_all(p) is empty and otherwise
\* the first element of find_all(p), the earliest matching node in pre-order
\* from n (a node before its descendants).
C5_FindIsFirstOfFindAll ==
    /\ last.op = "find" =>
          LET all == find_all(tree, last.node, last.pat)
              M   == Matches(tree, last.node, last.pat)
          IN  /\ last.out = 0 <=> all = <<>>
              /\ last.out = 0 <=> M = {}
              /\ last.out # 0 => last.out = all[1] /\ last.out = SetMin(M)
    /\ last.op = "find_all" =>
          last.out = SeqOfSet(Matches(tree, last.node, last.pat))

\* find returned a node below the one it was called on, the first of several
\* matches
C5_Witness ==
    /\ last.op = "find"
    /\ last.out # 0
    /\ last.out # last.node
    /\ Len(find_all(tree, last.node, last.pat)) >= 2

\* C6: text() returns the exact slice of the node's span, and when the bytes
\* of the span are not valid text it returns a failure value (an
\* EncodingError) the caller can handle.
C6_TextFailsWithAValue ==
    last.op = "text" =>
        LET bytes == SubSeq(tree.source, tree.start[last.node] + 1,
                            tree.end[last.node])
        IN  IF Utf8Valid(bytes)
            THEN last.out.status = "returned" /\ last.out.val = bytes
            ELSE last.out.status = "error"

\* C7: ancestors() walks strictly upward: first the parent, then the parent
\* of the item before, never the node itself; it ends at the root, is empty
\* exactly for the root, and its length is the depth of the node.
C7_AncestorsWalkUpToRoot ==
    iter.kind = "ancestors" =>
        LET y == iter.yielded
        IN  /\ \A k \in 1..Len(y) :
                  y[k] = parent(tree, IF k = 1 THEN iter.owner ELSE y[k - 1])
            /\ iter.owner \notin Range(y)
            /\ Range(y) \subseteq AncestorSet(tree, iter.owner)
            /\ iter.done =>
                  /\ Len(y) = Cardinality(AncestorSet(tree, iter.owner))
                  /\ y = <<>> <=> iter.owner = 1
                  /\ y # <<>> => y[Len(y)] = 1

\* an ancestors() iterator of a node of depth two or more was run to its end
C7_Witness ==
    /\ iter.kind = "ancestors"
    /\ iter.done
    /\ Len(iter.yielded) >= 2

\* C8: is_leaf() is true exactly when the node has no children, that is when
\* children() yields nothing and has length 0; the root of a tree with more
\* than one node is not a leaf.
C8_IsLeafIffNoChildren ==
    last.op = "is_leaf" =>
        /\ last.out <=> KidsSeq(tree, last.node) = <<>>
        /\ last.out <=> /\ Collect(tree, children(tree, last.node)) = <<>>
                        /\ NodeWalker_len(children(tree, last.node)) = 0
        /\ (last.node = 1 /\ tree.n > 1) => ~last.out

\* is_leaf() was called on the root of "let a = 123"
C8_Witness ==
    /\ last.op = "is_leaf"
    /\ tree = LetTree
    /\ last.node = 1
    /\ last.out = FALSE

\* C9: no call changes the tree or the source text (replace only returns an
\* Edit), and every children() call returns a walker that starts again at the
\* first child and yields all children, however far an earlier one was run.
C9_CallsLeaveTreeAndSourceAlone ==
    [][ /\ tree' = tree
        /\ last'.op = "children" =>
              /\ iter'.yielded = <<>>
              /\ ~iter'.done
              /\ Collect(tree', iter'.st) = KidsSeq(tree, last'.node) ]_vars

\* replace returned an Edit that would change the text if it were applied
C9_Witness ==
    /\ last.op = "replace"
    /\ last.out.some
    /\ last.out.inserted_text #
           SubSeq(tree.source, last.out.position + 1,
                  last.out.position + last.out.deleted_length)

\* C10: the Edit replace returns on node n addresses a byte range inside n,
\* hence inside the source text, and its deleted_length is not negative.
C10_EditInsideNode ==
    (last.op = "replace" /\ last.out.some) =>
        /\ start_byte(tree, last.node) <= last.out.position
        /\ last.out.position + last.out.deleted_length <= end_byte(tree, last.node)
        /\ end_byte(tree, last.node) <= Len(tree.source)
        /\ last.out.deleted_length >= 0

\* replace returned an Edit for a node strictly inside the node it was called on
C10_Witness ==
    /\ last.op = "replace"
    /\ last.out.some
    /\ start_byte(tree, last.node) < last.out.position
    /\ last.out.deleted_length > 0

====
